---------------------------- MODULE Spec2Model ----------------------------
(***************************************************************************)
(* A model of mail-rememberer (src/main.py): the Message and Task record   *)
(* types, their row conversions, the SQLite store behind insert_message /  *)
(* insert_task / get_*_by_id, the extraction of tasks from a model         *)
(* response, and the run of main() around generate_and_insert_sample_data. *)
(*                                                                         *)
(* Python values are tagged records: None, str (a sequence of one-char     *)
(* strings), int, date, and a non-empty list (a JSON array).  A dict is a  *)
(* function from its keys to values.  SQL values reuse the same tags:      *)
(* NULL is None, TEXT is str, INTEGER is int.                              *)
(***************************************************************************)
EXTENDS Integers, Sequences, FiniteSets, TLC

VARIABLES
    pc,            \* position of main(): see Next
    today,         \* what date.today() returns during this process
    is_dev,        \* IS_DEV, read from the environment at import
    foreign_keys,  \* the connection's PRAGMA foreign_keys flag
    db,            \* the database as the open connection sees it
    disk,          \* the database as last committed
    heap,          \* the Message / Task instances alive in the process
    response,      \* the model response the orchestrator's extraction got,
                   \* as drawn: see ResponseShapes
    message_id,    \* generate_and_insert_sample_data's local message_id
    idx,           \* how many turns its "for task in tasks" loop completed
    in_transaction,\* whether the connection has an open transaction
    outcome        \* how the last call ended: a return value or an exception

vars == <<pc, today, is_dev, foreign_keys, db, disk, heap, response,
          message_id, idx, in_transaction, outcome>>

---------------------------------------------------------------------------
(* Bounds *)

MaxItems == 3      \* items of one model response: see ResponseShapes
MaxEntities == 3   \* instances created through the constructors (StoreSpec)

---------------------------------------------------------------------------
(* Python values *)

None == [k |-> "None"]
Str(s) == [k |-> "str", s |-> s]
IntVal(n) == [k |-> "int", n |-> n]
Date(y, m, d) == [k |-> "date", year |-> y, month |-> m, day |-> d]
\* a non-empty list
List == [k |-> "list"]
Dict(f) == [k |-> "dict", d |-> f]

\* bool(v): None, "", 0 are falsy; a date and a non-empty list are truthy.
Truthy(v) ==
    CASE v.k = "None" -> FALSE
      [] v.k = "str" -> v.s # <<>>
      [] v.k = "int" -> v.n # 0
      [] OTHER -> TRUE

Digits == <<"0", "1", "2", "3", "4", "5", "6", "7", "8", "9">>
IsDigit(c) == \E i \in 1..10 : Digits[i] = c
DigitVal(c) == CHOOSE i \in 0..9 : Digits[i + 1] = c
AllDigits(s) == \A i \in 1..Len(s) : IsDigit(s[i])

RECURSIVE NatToText(_)
NatToText(n) ==
    IF n < 10 THEN <<Digits[n + 1]>>
    ELSE NatToText(n \div 10) \o <<Digits[(n % 10) + 1]>>

\* str(n) for an int
IntToText(n) == IF n < 0 THEN <<"-">> \o NatToText(0 - n) ELSE NatToText(n)

RECURSIVE TextToNat(_)
TextToNat(s) ==
    IF s = <<>> THEN 0
    ELSE 10 * TextToNat(SubSeq(s, 1, Len(s) - 1)) + DigitVal(s[Len(s)])

IsLeap(y) == (y % 4 = 0) /\ ((y % 100 # 0) \/ (y % 400 = 0))
DaysInMonth(y, m) ==
    IF m = 2 THEN (IF IsLeap(y) THEN 29 ELSE 28)
    ELSE IF m \in {4, 6, 9, 11} THEN 30 ELSE 31

\* date.isoformat(): "%04d-%02d-%02d"
DigitAt(n, p) == Digits[((n \div p) % 10) + 1]
IsoFormat(d) ==
    <<DigitAt(d.year, 1000), DigitAt(d.year, 100), DigitAt(d.year, 10),
      DigitAt(d.year, 1), "-", DigitAt(d.month, 10), DigitAt(d.month, 1), "-",
      DigitAt(d.day, 10), DigitAt(d.day, 1)>>

Ok(v) == [ok |-> TRUE, val |-> v]
Raise(e) == [ok |-> FALSE, exc |-> e]

\* date(y, m, d) as the parser builds it: ValueError outside the calendar.
MakeDate(y, m, d) ==
    IF y >= 1 /\ m \in 1..12 /\ d >= 1 /\ d <= DaysInMonth(y, m)
    THEN Ok(Date(y, m, d)) ELSE Raise("ValueError")

\* date.fromisoformat(v): TypeError unless v is a str; the calendar forms
\* YYYY-MM-DD and YYYYMMDD are parsed, every other text is a ValueError
\* (the week forms YYYY-Www[-D] are not among the inputs drawn here).
FromIsoFormat(v) ==
    IF v.k # "str" THEN Raise("TypeError")
    ELSE LET s == v.s IN
      IF Len(s) = 10 /\ s[5] = "-" /\ s[8] = "-"
         /\ AllDigits(SubSeq(s, 1, 4)) /\ AllDigits(SubSeq(s, 6, 7))
         /\ AllDigits(SubSeq(s, 9, 10))
      THEN MakeDate(TextToNat(SubSeq(s, 1, 4)), TextToNat(SubSeq(s, 6, 7)),
                    TextToNat(SubSeq(s, 9, 10)))
      ELSE IF Len(s) = 8 /\ AllDigits(s)
      THEN MakeDate(TextToNat(SubSeq(s, 1, 4)), TextToNat(SubSeq(s, 5, 6)),
                    TextToNat(SubSeq(s, 7, 8)))
      ELSE Raise("ValueError")

RECURSIVE LStrip(_)
LStrip(s) == IF s # <<>> /\ Head(s) = " " THEN LStrip(Tail(s)) ELSE s
RECURSIVE RStrip(_)
RStrip(s) ==
    IF s # <<>> /\ s[Len(s)] = " " THEN RStrip(SubSeq(s, 1, Len(s) - 1)) ELSE s
\* str.strip()
Strip(s) == RStrip(LStrip(s))

\* dict.get(key) and dict.get(key, default)
GetOr(p, key, default) == IF key \in DOMAIN p THEN p[key] ELSE default
Get(p, key) == GetOr(p, key, None)

---------------------------------------------------------------------------
(* Record types *)

NewMessage(id, added_at, message) ==
    [cls |-> "Message", id |-> id, added_at |-> added_at, message |-> message]

NewTask(id, added_at, last_modified_at, scheduled_for, scheduled_for_comment, description, status, comment, from_message) ==
    [cls |-> "Task", id |-> id, added_at |-> added_at,
     last_modified_at |-> last_modified_at, scheduled_for |-> scheduled_for,
     scheduled_for_comment |-> scheduled_for_comment,
     description |-> description, status |-> status, comment |-> comment,
     from_message |-> from_message]

Message_from_db(row) ==
    LET a == FromIsoFormat(row.added_at) IN
    IF ~a.ok THEN a
    ELSE Ok(NewMessage(row.id, a.val, row.message))

Message_to_db(self) == <<Str(IsoFormat(self.added_at)), self.message>>

Message_from_message(message) == NewMessage(None, today, message)

Task_from_description(description, from_message) ==
    NewTask(None, today, today, None, None, description,
            Str(<<"p", "e", "n", "d", "i", "n", "g">>), Str(<<>>), from_message)

TaskStatus ==
    <<Str(<<"p", "e", "n", "d", "i", "n", "g">>),
      Str(<<"r", "u", "n", "n", "i", "n", "g">>),
      Str(<<"c", "o", "m", "p", "l", "e", "t", "e", "d">>),
      Str(<<"f", "a", "i", "l", "e", "d">>)>>

IsTaskStatus(v) == \E i \in 1..Len(TaskStatus) : TaskStatus[i] = v

\* Task.from_llm_tool_call without the check of line 109
Task_from_llm_tool_call_any_status(properties) ==
    IF properties.k # "dict" THEN Raise("AttributeError")
    ELSE LET p == properties.d IN
      IF ~Truthy(Get(p, "description")) THEN Raise("ValueError")
      ELSE IF ~Truthy(Get(p, "status")) THEN Raise("ValueError")
      ELSE Ok(NewTask(None, today, today, None, None, p["description"],
                      p["status"], GetOr(p, "comment", Str(<<>>)), None))

Task_from_llm_tool_call(properties) ==
    IF properties.k # "dict" THEN Raise("AttributeError")
    ELSE LET p == properties.d IN
      IF ~Truthy(Get(p, "description")) THEN Raise("ValueError")
      ELSE IF ~Truthy(Get(p, "status")) THEN Raise("ValueError")
      ELSE IF ~IsTaskStatus(p["status"]) THEN Raise("ValueError")
      ELSE
        LET sf == IF Truthy(Get(p, "scheduled_for"))
                  THEN FromIsoFormat(p["scheduled_for"]) ELSE Ok(None)
            sfc == IF Truthy(Get(p, "scheduled_for_comment"))
                   THEN p["scheduled_for_comment"] ELSE None
        IN IF ~sf.ok THEN sf
           ELSE Ok(NewTask(None, today, today, sf.val, sfc, p["description"],
                           p["status"], GetOr(p, "comment", Str(<<>>)), None))

Task_from_db(row) ==
    LET a == FromIsoFormat(row.added_at)
        l == FromIsoFormat(row.last_modified_at)
        s == IF Truthy(row.scheduled_for)
             THEN FromIsoFormat(row.scheduled_for) ELSE Ok(None)
    IN IF ~a.ok THEN a
       ELSE IF ~l.ok THEN l
       ELSE IF ~s.ok THEN s
       ELSE Ok(NewTask(row.id, a.val, l.val, s.val, row.scheduled_for_comment,
                       row.description, row.status, row.comment,
                       row.from_message))

Task_to_db(self) ==
    <<Str(IsoFormat(self.added_at)), Str(IsoFormat(self.last_modified_at)),
      IF Truthy(self.scheduled_for)
      THEN Str(IsoFormat(self.scheduled_for)) ELSE None,
      self.scheduled_for_comment, self.description, self.status,
      self.comment, self.from_message>>

---------------------------------------------------------------------------
(* The SQLite store.  A database is the two tables (when created), each a  *)
(* function from rowid to row, and the AUTOINCREMENT counters kept in      *)
(* sqlite_sequence.  A call works on s = [db, heap, foreign_keys,          *)
(* in_transaction] and returns [ok, val | exc, s].                         *)

NoTables == [tables |-> FALSE, messages |-> <<>>, tasks |-> <<>>,
             seq_messages |-> 0, seq_tasks |-> 0]

SetMax(S) == CHOOSE x \in S : \A y \in S : y <= x

\* the rowid an AUTOINCREMENT table gives its next row
NextRowid(rows, seq) ==
    LET top == IF DOMAIN rows = {} THEN 0 ELSE SetMax(DOMAIN rows)
    IN (IF seq > top THEN seq ELSE top) + 1

\* what sqlite3 binds: None, int, str; any other type is a ProgrammingError
Bindable(v) == v.k \in {"None", "int", "str"}

\* a column declared TEXT stores a number as its text
TextAffinity(v) == IF v.k = "int" THEN Str(IntToText(v.n)) ELSE v

\* a column declared INTEGER stores a text that spells an integer as integer
IntegerAffinity(v) ==
    IF v.k = "str" /\ v.s # <<>> /\ AllDigits(v.s)
    THEN IntVal(TextToNat(v.s)) ELSE v

\* the row a statement's parameters make, each under its column's affinity
MessageRow(rowid, params) ==
    [id |-> IntVal(rowid), added_at |-> TextAffinity(params[1]),
     message |-> TextAffinity(params[2])]

TaskRow(rowid, params) ==
    [id |-> IntVal(rowid), added_at |-> TextAffinity(params[1]),
     last_modified_at |-> TextAffinity(params[2]),
     scheduled_for |-> TextAffinity(params[3]),
     scheduled_for_comment |-> TextAffinity(params[4]),
     description |-> TextAffinity(params[5]),
     status |-> TextAffinity(params[6]),
     comment |-> TextAffinity(params[7]),
     from_message |-> IntegerAffinity(params[8])]

\* FOREIGN KEY (from_message) REFERENCES messages (id)
ForeignKeyHolds(d, from_message) ==
    \/ from_message.k = "None"
    \/ /\ from_message.k = "int"
       /\ from_message.n \in DOMAIN d.messages

StoreMessageRow(d, row) ==
    [ok |-> TRUE, lastrowid |-> row.id.n,
     db |-> [d EXCEPT !.messages = (row.id.n :> row) @@ d.messages,
                      !.seq_messages = row.id.n]]

StoreTaskRow(d, fk, row) ==
    IF fk /\ ~ForeignKeyHolds(d, row.from_message)
    THEN Raise("IntegrityError")
    ELSE [ok |-> TRUE, lastrowid |-> row.id.n,
          db |-> [d EXCEPT !.tasks = (row.id.n :> row) @@ d.tasks,
                           !.seq_tasks = row.id.n]]

\* "INSERT INTO messages (added_at, message) VALUES (?, ?)"
ExecInsertMessage(d, params) ==
    IF ~d.tables THEN Raise("OperationalError")
    ELSE IF \E i \in 1..Len(params) : ~Bindable(params[i])
    THEN Raise("ProgrammingError")
    ELSE StoreMessageRow(d, MessageRow(NextRowid(d.messages, d.seq_messages),
                                       params))

\* "INSERT INTO tasks (added_at, ..., from_message) VALUES (?, ..., ?)"
ExecInsertTask(d, fk, params) ==
    IF ~d.tables THEN Raise("OperationalError")
    ELSE IF \E i \in 1..Len(params) : ~Bindable(params[i])
    THEN Raise("ProgrammingError")
    ELSE StoreTaskRow(d, fk, TaskRow(NextRowid(d.tasks, d.seq_tasks), params))

\* "PRAGMA foreign_keys = ON" does nothing inside a transaction; the two
\* CREATE TABLE IF NOT EXISTS leave existing tables as they are.
\* create_tables without "PRAGMA foreign_keys = ON"
create_tables_without_pragma(s) ==
    [s EXCEPT !.db = IF s.db.tables THEN @ ELSE [NoTables EXCEPT !.tables = TRUE]]

create_tables(s) ==
    [s EXCEPT !.foreign_keys = IF s.in_transaction THEN @ ELSE TRUE,
              !.db = IF s.db.tables THEN @ ELSE [NoTables EXCEPT !.tables = TRUE]]

\* sqlite3 opens a transaction before an INSERT once the statement is
\* prepared, so a statement that fails later leaves the transaction open.
Began(s, r) ==
    IF ~r.ok /\ r.exc = "OperationalError" THEN s.in_transaction ELSE TRUE

\* lines 215-217 and 234-236, once cur.execute ended as r: the instance
\* takes cur.lastrowid as its id, or the exception leaves the call
Executed(s, entity, r) ==
    IF ~r.ok
    THEN [ok |-> FALSE, exc |-> r.exc,
          s |-> [s EXCEPT !.in_transaction = Began(s, r)]]
    ELSE [ok |-> TRUE, val |-> IntVal(r.lastrowid),
          s |-> [s EXCEPT !.db = r.db, !.in_transaction = TRUE,
                          !.heap[entity].id = IntVal(r.lastrowid)]]

\* insert_message without its check of message.id
insert_message_unguarded(s, message) ==
    Executed(s, message,
             ExecInsertMessage(s.db, Message_to_db(s.heap[message])))

insert_message(s, message) ==
    IF s.heap[message].id # None
    THEN [ok |-> FALSE, exc |-> "ValueError", s |-> s]
    ELSE Executed(s, message,
                  ExecInsertMessage(s.db, Message_to_db(s.heap[message])))

\* insert_task without its check of task.id
insert_task_unguarded(s, task) ==
    Executed(s, task,
             ExecInsertTask(s.db, s.foreign_keys, Task_to_db(s.heap[task])))

insert_task(s, task) ==
    IF s.heap[task].id # None
    THEN [ok |-> FALSE, exc |-> "ValueError", s |-> s]
    ELSE Executed(s, task,
                  ExecInsertTask(s.db, s.foreign_keys,
                                 Task_to_db(s.heap[task])))

get_message_by_id(s, message_id_) ==
    IF ~s.db.tables THEN Raise("OperationalError")
    ELSE IF message_id_ \notin DOMAIN s.db.messages THEN Ok(None)
    ELSE Message_from_db(s.db.messages[message_id_])

get_task_by_id(s, task_id) ==
    IF ~s.db.tables THEN Raise("OperationalError")
    ELSE IF task_id \notin DOMAIN s.db.tasks THEN Ok(None)
    ELSE Task_from_db(s.db.tasks[task_id])

\* the calling process's view, as the calls above take it
Self == [db |-> db, heap |-> heap, foreign_keys |-> foreign_keys,
         in_transaction |-> in_transaction]

---------------------------------------------------------------------------
(* Extraction.  A model response is a sequence of choices, each with a     *)
(* finish_reason and its tool_calls; a tool call has the function's name   *)
(* and its arguments, a JSON text: Json(v) is a text that decodes to v,    *)
(* NotJson one that does not decode.                                       *)

Json(v) == [k |-> "json", v |-> v]
NotJson == [k |-> "garbage"]

\* json.loads
json_loads(text) ==
    IF text.k = "json" THEN Ok(text.v) ELSE Raise("JSONDecodeError")

\* the inner loop, lines 334-345, from tool_calls on with `tasks` so far
RECURSIVE LoopToolCalls(_, _)

\* lines 338-343: a task that could not be parsed is skipped
Parsed(task, rest, tasks) ==
    IF ~task.ok THEN LoopToolCalls(rest, tasks)
    ELSE LoopToolCalls(rest, Append(tasks, task.val))

\* line 337: json.loads is outside the try, so its exception leaves the loop
Loaded(task_desc, rest, tasks) ==
    IF ~task_desc.ok THEN task_desc
    ELSE Parsed(Task_from_llm_tool_call(task_desc.val), rest, tasks)

LoopToolCalls(tool_calls, tasks) ==
    IF tool_calls = <<>> THEN Ok(tasks)
    ELSE IF Head(tool_calls).name = "insert_task"
    THEN Loaded(json_loads(Head(tool_calls).arguments), Tail(tool_calls), tasks)
    ELSE LoopToolCalls(Tail(tool_calls), tasks)

\* the outer loop, lines 332-347
RECURSIVE LoopChoices(_, _)

ChoiceDone(r, rest) == IF ~r.ok THEN r ELSE LoopChoices(rest, r.val)

\* the outer loop raising on a finish reason it does not expect
LoopChoices_raising(choices, tasks) ==
    IF choices = <<>> THEN Ok(tasks)
    ELSE IF Head(choices).finish_reason = "tool_calls"
    THEN ChoiceDone(LoopToolCalls(Head(choices).tool_calls, tasks),
                    Tail(choices))
    ELSE Raise("ValueError")

LoopChoices(choices, tasks) ==
    IF choices = <<>> THEN Ok(tasks)
    ELSE IF Head(choices).finish_reason = "tool_calls"
    THEN ChoiceDone(LoopToolCalls(Head(choices).tool_calls, tasks),
                    Tail(choices))
    ELSE LoopChoices(Tail(choices), tasks)

\* extract_tasks_from_message, given what mistral.chat.complete returned
extract_tasks_from_message(resp) == LoopChoices(resp, <<>>)

---------------------------------------------------------------------------
(* Inputs *)

Text_a == Str(<<"a">>)
Text_b == Str(<<"b">>)
Text_c == Str(<<"c">>)

\* the tool invocations a response is drawn from
ToolCalls ==
    <<[name |-> "insert_task",
       arguments |-> Json(Dict([description |-> Text_a,
                                status |-> TaskStatus[1]]))],
      [name |-> "insert_task",
       arguments |-> Json(Dict([description |-> Text_b,
                                status |-> TaskStatus[3],
                                comment |-> Text_c,
                                scheduled_for |->
                                    Str(<<"2", "0", "2", "4", "-", "0", "2",
                                          "-", "2", "9">>),
                                scheduled_for_comment |-> Text_c]))],
      [name |-> "insert_task",
       arguments |-> Json(Dict([description |-> Text_a,
                                status |-> Str(<<"d", "o", "n", "e">>)]))],
      [name |-> "insert_task", arguments |-> NotJson],
      [name |-> "delete_task",
       arguments |-> Json(Dict([description |-> Text_a,
                                status |-> TaskStatus[1]]))],
      [name |-> "insert_task",
       arguments |-> Json(Dict([description |-> List,
                                status |-> TaskStatus[4]]))],
      [name |-> "insert_task",
       arguments |-> Json(Dict([description |-> IntVal(5),
                                status |-> TaskStatus[2]]))],
      [name |-> "insert_task",
       arguments |-> Json(Dict([description |-> Str(<<>>),
                                status |-> TaskStatus[1]]))],
      [name |-> "insert_task",
       arguments |-> Json(Dict([status |-> TaskStatus[1]]))],
      [name |-> "insert_task",
       arguments |-> Json(Dict([description |-> Text_b]))],
      [name |-> "insert_task",
       arguments |-> Json(Dict([description |-> Text_b,
                                status |-> TaskStatus[2],
                                scheduled_for |->
                                    Str(<<"2", "0", "2", "3", "-", "0", "2",
                                          "-", "2", "9">>)]))],
      [name |-> "insert_task", arguments |-> Json(List)]>>

\* A response is drawn as a sequence of items: i in 1..Len(ToolCalls) is
\* the invocation ToolCalls[i], and 0 is a choice that ended with "stop".
\* The invocations between two such choices are one choice that ended
\* with "tool_calls".
ResponseShapes == UNION {[1..k -> 0..Len(ToolCalls)] : k \in 0..MaxItems}

\* how many invocations the shape starts with
RECURSIVE RunLen(_)
RunLen(shape) ==
    IF shape = <<>> \/ Head(shape) = 0 THEN 0 ELSE 1 + RunLen(Tail(shape))

RECURSIVE MakeResponse(_)
MakeResponse(shape) ==
    IF shape = <<>> THEN <<>>
    ELSE IF Head(shape) = 0
    THEN <<[finish_reason |-> "stop", tool_calls |-> <<>>]>>
         \o MakeResponse(Tail(shape))
    ELSE <<[finish_reason |-> "tool_calls",
            tool_calls |-> [i \in 1..RunLen(shape) |-> ToolCalls[shape[i]]]]>>
         \o MakeResponse(SubSeq(shape, RunLen(shape) + 1, Len(shape)))

\* what the first model call returns as the message text
Contents == <<Str(<<"h", "i">>), Str(<<" ", "h", "i", " ">>)>>

\* what date.today() can be
Dates == <<Date(2024, 2, 29), Date(987, 11, 5)>>

\* the database file a run of main() finds: none yet, or the one an
\* earlier run left
EarlierRun ==
    [tables |-> TRUE,
     messages |-> (1 :> [id |-> IntVal(1),
                         added_at |-> Str(IsoFormat(Dates[1])),
                         message |-> Text_a]),
     tasks |-> (1 :> [id |-> IntVal(1),
                      added_at |-> Str(IsoFormat(Dates[1])),
                      last_modified_at |-> Str(IsoFormat(Dates[1])),
                      scheduled_for |-> None, scheduled_for_comment |-> None,
                      description |-> Text_a, status |-> TaskStatus[1],
                      comment |-> Str(<<>>), from_message |-> None]),
     seq_messages |-> 1, seq_tasks |-> 1]

Disks == <<NoTables, EarlierRun>>

---------------------------------------------------------------------------
(* main() *)

NoCall == [op |-> "none", ok |-> TRUE, val |-> None]

Init ==
    /\ pc = "start"
    /\ today \in {Dates[i] : i \in 1..Len(Dates)}
    /\ is_dev \in BOOLEAN
    /\ foreign_keys = FALSE
    /\ in_transaction = FALSE
    /\ \E i \in 1..Len(Disks) : disk = Disks[i]
    /\ db = disk
    /\ heap = <<>>
    /\ response = <<>>
    /\ message_id = None
    /\ idx = 0
    /\ outcome = NoCall

\* line 402: print(extract_tasks_from_message(mistral, "This is a test..."))
Probed(r) ==
    /\ pc' = IF r.ok THEN "connect" ELSE "crashed"
    /\ outcome' = IF r.ok
                  THEN [op |-> "print", ok |-> TRUE, val |-> None]
                  ELSE [op |-> "extract_tasks_from_message", ok |-> FALSE,
                        exc |-> r.exc]

Main_Probe ==
    /\ pc = "start"
    /\ \E shape \in ResponseShapes :
         Probed(extract_tasks_from_message(MakeResponse(shape)))
    /\ UNCHANGED <<today, is_dev, foreign_keys, db, disk, heap, response,
                   message_id, idx, in_transaction>>

\* lines 405-412: open the connection, drop both tables in dev mode,
\* create_tables, commit.  No transaction is open, so each statement is
\* committed as it runs.
Main_Connect ==
    /\ pc = "connect"
    /\ LET opened == [db |-> IF is_dev THEN NoTables ELSE disk, heap |-> heap,
                      foreign_keys |-> FALSE, in_transaction |-> FALSE]
           s == create_tables(opened)
       IN /\ db' = s.db
          /\ disk' = s.db
          /\ foreign_keys' = s.foreign_keys
          /\ in_transaction' = FALSE
    /\ pc' = "generate"
    /\ outcome' = [op |-> "create_tables", ok |-> TRUE, val |-> None]
    /\ UNCHANGED <<today, is_dev, heap, response, message_id, idx>>

\* lines 382-383, "for task in tasks: insert_task(cur, task)", after i
\* turns; the tasks are heap[2], heap[3], ..., heap[1] being the message.
\* The first insert that raises ends the loop.
RECURSIVE LoopInsertTasks(_, _)

Turned(r, i) ==
    IF ~r.ok THEN [ok |-> FALSE, exc |-> r.exc, s |-> r.s, idx |-> i]
    ELSE LoopInsertTasks(r.s, i + 1)

LoopInsertTasks(s, i) ==
    IF i + 2 > Len(s.heap) THEN [ok |-> TRUE, s |-> s, idx |-> i]
    ELSE Turned(insert_task(s, i + 2), i)

\* generate_and_insert_sample_data, lines 352-385, given the text of the
\* first model reply and the second model reply.  It ends as [ok, exc, s,
\* message_id, idx, op], op being the call that raised.  m is how
\* insert_message ended, tasks how extract_tasks_from_message ended and l
\* how the loop ended.
Inserted(m, l) ==
    IF ~l.ok
    THEN [ok |-> FALSE, exc |-> l.exc, s |-> l.s, message_id |-> m.val,
          idx |-> l.idx, op |-> "insert_task"]
    ELSE [ok |-> TRUE, s |-> l.s, message_id |-> m.val, idx |-> l.idx,
          op |-> "generate_and_insert_sample_data"]

Extracted(m, tasks) ==
    IF ~tasks.ok
    THEN [ok |-> FALSE, exc |-> tasks.exc, s |-> m.s, message_id |-> m.val,
          idx |-> 0, op |-> "extract_tasks_from_message"]
    ELSE Inserted(m, LoopInsertTasks([m.s EXCEPT !.heap = @ \o tasks.val], 0))

MessageInserted(m, resp) ==
    IF ~m.ok
    THEN [ok |-> FALSE, exc |-> m.exc, s |-> m.s, message_id |-> None,
          idx |-> 0, op |-> "insert_message"]
    ELSE Extracted(m, extract_tasks_from_message(resp))

generate_and_insert_sample_data(s, content, resp) ==
    MessageInserted(
        insert_message(
            [s EXCEPT !.heap = <<Message_from_message(Str(Strip(content.s)))>>],
            1),
        resp)

\* line 414 inside "with get_connection() as conn": when the call returns
\* the connection commits; when it raises, the connection rolls back and
\* the exception ends main()
Returned(shape, r) ==
    /\ response' = shape
    /\ heap' = r.s.heap
    /\ message_id' = r.message_id
    /\ idx' = r.idx
    /\ db' = IF r.ok THEN r.s.db ELSE disk
    /\ disk' = IF r.ok THEN r.s.db ELSE disk
    /\ pc' = IF r.ok THEN "done" ELSE "failed"
    /\ outcome' = IF r.ok
                  THEN [op |-> r.op, ok |-> TRUE, val |-> None]
                  ELSE [op |-> r.op, ok |-> FALSE, exc |-> r.exc]

Main_Generate ==
    /\ pc = "generate"
    /\ \E c \in 1..Len(Contents) : \E shape \in ResponseShapes :
         Returned(shape,
                  generate_and_insert_sample_data(Self, Contents[c],
                                                  MakeResponse(shape)))
    /\ in_transaction' = FALSE
    /\ UNCHANGED <<today, is_dev, foreign_keys>>

Next ==
    \/ Main_Probe
    \/ Main_Connect
    \/ Main_Generate

Spec == Init /\ [][Next]_vars

---------------------------------------------------------------------------
(* The store's functions called one at a time on a connection set up as    *)
(* main() sets it up, with instances made by the two constructors.         *)

\* the texts handed to Message.from_message
Texts == <<Text_a, Text_b>>

\* the descriptions handed to Task.from_description
Descriptions == <<Text_c>>

\* the from_message handed to Task.from_description
FromMessages == <<None, IntVal(1), IntVal(2)>>

StoreInit ==
    /\ pc = "api"
    /\ today \in {Dates[i] : i \in 1..Len(Dates)}
    /\ is_dev = FALSE
    /\ LET s == create_tables([db |-> NoTables, heap |-> <<>>,
                               foreign_keys |-> FALSE,
                               in_transaction |-> FALSE])
       IN /\ db = s.db
          /\ disk = s.db
          /\ foreign_keys = s.foreign_keys
          /\ in_transaction = s.in_transaction
    /\ heap = <<>>
    /\ response = <<>>
    /\ message_id = None
    /\ idx = 0
    /\ outcome = NoCall

Frame == UNCHANGED <<pc, today, is_dev, disk, response, message_id, idx>>

\* Message.from_message(text)
Call_Message_from_message ==
    /\ Len(heap) < MaxEntities
    /\ \E i \in 1..Len(Texts) :
         heap' = Append(heap, Message_from_message(Texts[i]))
    /\ outcome' = [op |-> "Message.from_message", ok |-> TRUE,
                   arg |-> Len(heap) + 1]
    /\ UNCHANGED <<db, foreign_keys, in_transaction>>
    /\ Frame

\* Task.from_description(description, from_message)
Call_Task_from_description ==
    /\ Len(heap) < MaxEntities
    /\ \E i \in 1..Len(Descriptions) : \E j \in 1..Len(FromMessages) :
         heap' = Append(heap, Task_from_description(Descriptions[i],
                                                    FromMessages[j]))
    /\ outcome' = [op |-> "Task.from_description", ok |-> TRUE,
                   arg |-> Len(heap) + 1]
    /\ UNCHANGED <<db, foreign_keys, in_transaction>>
    /\ Frame

\* how a call that ended as r leaves the process
Called(op, arg, r) ==
    /\ db' = r.s.db
    /\ heap' = r.s.heap
    /\ foreign_keys' = r.s.foreign_keys
    /\ in_transaction' = r.s.in_transaction
    /\ outcome' = IF r.ok
                  THEN [op |-> op, ok |-> TRUE, arg |-> arg, val |-> r.val]
                  ELSE [op |-> op, ok |-> FALSE, arg |-> arg, exc |-> r.exc]
    /\ Frame

Call_insert_message ==
    \E h \in 1..Len(heap) :
        /\ heap[h].cls = "Message"
        /\ Called("insert_message", h, insert_message(Self, h))

Call_insert_task ==
    \E h \in 1..Len(heap) :
        /\ heap[h].cls = "Task"
        /\ Called("insert_task", h, insert_task(Self, h))

\* a lookup returns its entity, or None, and changes nothing
Looked(op, arg, r) ==
    /\ outcome' = IF r.ok
                  THEN [op |-> op, ok |-> TRUE, arg |-> arg, val |-> r.val]
                  ELSE [op |-> op, ok |-> FALSE, arg |-> arg, exc |-> r.exc]
    /\ UNCHANGED <<db, heap, foreign_keys, in_transaction>>
    /\ Frame

\* looked up: every rowid given out so far, and the next one
Call_get_message_by_id ==
    \E i \in 1..(db.seq_messages + 1) :
        Looked("get_message_by_id", i, get_message_by_id(Self, i))

Call_get_task_by_id ==
    \E i \in 1..(db.seq_tasks + 1) :
        Looked("get_task_by_id", i, get_task_by_id(Self, i))

\* create_tables(cur) on the set-up connection
Call_create_tables ==
    /\ pc = "api"
    /\ Called("create_tables", 0, [ok |-> TRUE, val |-> None,
                                   s |-> create_tables(Self)])

StoreNext ==
    \/ Call_Message_from_message
    \/ Call_Task_from_description
    \/ Call_insert_message
    \/ Call_insert_task
    \/ Call_get_message_by_id
    \/ Call_get_task_by_id
    \/ Call_create_tables

StoreSpec == StoreInit /\ [][StoreNext]_vars

---------------------------------------------------------------------------
(* Properties *)

Ended == pc \in {"done", "failed"}

\* the response the orchestrator's extraction got
Response == MakeResponse(response)

\* the tasks extract_tasks_from_message returned to the orchestrator, as
\* returned (the loop's inserts have since set their ids)
ReturnedTasks == [i \in 1..(Len(heap) - 1) |-> [heap[i + 1] EXCEPT !.id = None]]

ExtractionRaised == outcome.op = "extract_tasks_from_message" /\ ~outcome.ok

\* every invocation of the choices that ended with "tool_calls", in order
RECURSIVE Invocations(_)
Invocations(choices) ==
    IF choices = <<>> THEN <<>>
    ELSE (IF Head(choices).finish_reason = "tool_calls"
          THEN Head(choices).tool_calls ELSE <<>>)
         \o Invocations(Tail(choices))

Decodes(tool_call) == tool_call.arguments.k = "json"

Validates(tool_call) ==
    /\ tool_call.name = "insert_task"
    /\ Decodes(tool_call)
    /\ Task_from_llm_tool_call(tool_call.arguments.v).ok

TaskOf(tool_call) == Task_from_llm_tool_call(tool_call.arguments.v).val

ValidTasks(choices) ==
    LET valid == SelectSeq(Invocations(choices), Validates)
    IN [i \in 1..Len(valid) |-> TaskOf(valid[i])]

\* C1: once the orchestrator has processed a message, every task row it
\* persisted for it has from_message equal to the id insert_message gave
\* the message.
C1_TasksLinkedToMessage ==
    pc = "done" =>
        \A h \in 2..Len(heap) :
            /\ heap[h].id # None
            /\ db.tasks[heap[h].id.n].from_message = message_id

\* C2: for any model response, extract_tasks_from_message returns exactly
\* the tasks built from the insert_task invocations whose payload passes
\* validation, in the order the model emitted them.
C2_ReturnsValidTasksInOrder ==
    Ended => /\ ~ExtractionRaised
             /\ ReturnedTasks = ValidTasks(Response)

\* C3: an invocation whose arguments do not decode is dropped: the
\* extraction does not raise, and the other invocations and choices still
\* contribute their valid tasks.
C3_DecodeFailureDropped ==
    (Ended /\ \E i \in 1..Len(Invocations(Response)) :
                  /\ Invocations(Response)[i].name = "insert_task"
                  /\ ~Decodes(Invocations(Response)[i]))
    => /\ ~ExtractionRaised
       /\ ReturnedTasks = ValidTasks(Response)

IsInsert(op) == op \in {"insert_message", "insert_task"}

\* C4: insert_message / insert_task on an instance whose id is set raises
\* before any statement runs: no row is added or changed, no transaction
\* is opened and the instance keeps its id.
C4_InsertOfPersistedRejected ==
    [][\A h \in 1..Len(heap) :
         (heap[h].id # None /\ IsInsert(outcome'.op) /\ outcome'.arg = h)
         => /\ ~outcome'.ok
            /\ outcome'.exc = "ValueError"
            /\ db' = db
            /\ in_transaction' = in_transaction
            /\ heap' = heap]_vars

C4_Witness ==
    /\ IsInsert(outcome.op)
    /\ ~outcome.ok
    /\ outcome.exc = "ValueError"
    /\ heap[outcome.arg].id # None
    /\ heap[outcome.arg].id.n \in DOMAIN db.messages \cup DOMAIN db.tasks

\* from_message names no row of messages
Dangling(d, from_message) ==
    /\ from_message # None
    /\ \A m \in DOMAIN d.messages : d.messages[m].id # from_message

\* C5: insert_task on a task whose from_message is the id of no message
\* raises, creates no row and leaves task.id None; so every task row's
\* from_message is NULL or the id of a row of messages.
C5_NoDanglingFromMessage ==
    /\ [](\A t \in DOMAIN db.tasks : ~Dangling(db, db.tasks[t].from_message))
    /\ [][\A h \in 1..Len(heap) :
            (/\ outcome'.op = "insert_task" /\ outcome'.arg = h
             /\ heap[h].id = None /\ Dangling(db, heap[h].from_message))
            => /\ ~outcome'.ok
               /\ db' = db
               /\ heap'[h].id = None]_vars

C5_Witness ==
    /\ outcome.op = "insert_task"
    /\ ~outcome.ok
    /\ outcome.exc = "IntegrityError"
    /\ Dangling(db, heap[outcome.arg].from_message)
    /\ DOMAIN db.messages # {}

\* a payload that misses description or status, has an empty description,
\* or a status outside the four
InvalidPayload(p) ==
    \/ "description" \notin DOMAIN p
    \/ p["description"] = Str(<<>>)
    \/ "status" \notin DOMAIN p
    \/ p["status"] \notin {TaskStatus[i] : i \in 1..Len(TaskStatus)}

StatusAndDescriptionValid(e) ==
    /\ e.status \in {TaskStatus[i] : i \in 1..Len(TaskStatus)}
    /\ e.description \notin {None, Str(<<>>)}

\* C6: Task.from_llm_tool_call raises for every payload that misses
\* description or status, has an empty description or a status outside the
\* four; no task with an invalid status or an empty description is
\* returned by the extraction or stored by insert_task.
C6_InvalidPayloadRejected ==
    /\ \A i \in 1..Len(Invocations(Response)) :
         LET args == Invocations(Response)[i].arguments IN
         (Decodes(Invocations(Response)[i]) /\ args.v.k = "dict"
          /\ InvalidPayload(args.v.d))
         => ~Task_from_llm_tool_call(args.v).ok
    /\ \A h \in 2..Len(heap) : StatusAndDescriptionValid(heap[h])
    /\ \A t \in DOMAIN db.tasks : StatusAndDescriptionValid(db.tasks[t])
    /\ \A t \in DOMAIN disk.tasks : StatusAndDescriptionValid(disk.tasks[t])

C6_Witness ==
    /\ pc = "done"
    /\ \E i \in 1..Len(Invocations(Response)) :
         LET args == Invocations(Response)[i].arguments IN
         /\ Decodes(Invocations(Response)[i])
         /\ args.v.k = "dict"
         /\ "status" \in DOMAIN args.v.d
         /\ InvalidPayload(args.v.d)
    /\ Len(heap) = Len(response)
    /\ DOMAIN disk.tasks # {}

\* C7: in the run of main(), a failure inserting one extracted task rolls
\* back neither the message nor the tasks inserted before it: they are in
\* the store when the run has ended.
C7_FailedInsertKeepsTheRest ==
    (pc = "failed" /\ outcome.op = "insert_task")
    => /\ message_id.n \in DOMAIN disk.messages
       /\ \A h \in 2..(idx + 1) : heap[h].id.n \in DOMAIN disk.tasks

AllStopped(choices) ==
    \A i \in 1..Len(choices) : choices[i].finish_reason # "tool_calls"

\* C8: when every choice of the response ended for another reason than
\* tool invocation, the extraction returns no task and does not raise, and
\* the orchestrator ends without error, the message stored and no task row
\* added.
C8_NoToolCallsNoTasks ==
    [][(pc = "generate" /\ pc' # "generate"
        /\ AllStopped(MakeResponse(response')))
       => /\ pc' = "done"
          /\ outcome'.ok
          /\ Len(heap') = 1
          /\ heap'[1].id = message_id'
          /\ message_id'.n \in DOMAIN disk'.messages \ DOMAIN disk.messages
          /\ disk'.messages[message_id'.n].message = heap'[1].message
          /\ disk'.tasks = disk.tasks
          /\ db' = disk']_vars

C8_Witness ==
    /\ pc = "done"
    /\ Len(response) >= 2
    /\ AllStopped(Response)
    /\ Len(heap) = 1
    /\ message_id.n \in DOMAIN disk.messages

Table(d, e) == IF e.cls = "Message" THEN d.messages ELSE d.tasks

\* C9: an instance's id is None until its first successful insert, which
\* sets it to the id of the row it created; it never changes afterwards, a
\* failed insert leaves it as it was, and no instance is inserted twice.
C9_IdSetOnceByInsert ==
    [][\A h \in 1..Len(heap) :
         /\ heap[h].id # None => heap'[h].id = heap[h].id
         /\ (heap[h].id = None /\ heap'[h].id # None)
            => /\ IsInsert(outcome'.op) /\ outcome'.arg = h /\ outcome'.ok
               /\ outcome'.val = heap'[h].id
               /\ heap'[h].id.n \in DOMAIN Table(db', heap[h])
                                    \ DOMAIN Table(db, heap[h])
         /\ (IsInsert(outcome'.op) /\ outcome'.arg = h)
            => IF outcome'.ok
               THEN heap[h].id = None /\ heap'[h].id # None
               ELSE heap'[h].id = heap[h].id /\ db' = db]_vars

C9_Witness ==
    /\ IsInsert(outcome.op)
    /\ ~outcome.ok
    /\ heap[outcome.arg].id = None
    /\ \E h \in 1..Len(heap) :
         /\ heap[h].cls = "Task"
         /\ heap[h].id # None
         /\ heap[h].id.n \in DOMAIN db.tasks

Lookup(e) ==
    IF e.cls = "Message" THEN get_message_by_id(Self, e.id.n)
    ELSE get_task_by_id(Self, e.id.n)

\* C10: a persisted Message or Task, written as its row under its id and
\* read back by get_message_by_id / get_task_by_id, is equal to the
\* original in every field.
C10_RoundTrip ==
    pc = "done" =>
        \A h \in 1..Len(heap) : heap[h].id # None => Lookup(heap[h]) = Ok(heap[h])

===========================================================================
